---- MODULE Spec2Model ----
(***************************************************************************)
(* Model of the card controller of src/components/InteractiveCard.tsx:     *)
(* the tab selector, the conversation controller (handleSendMessage,       *)
(* playAudioResponse), the speech capture adapter (handleMicClick and the  *)
(* recognition callbacks) and the external collaborators they talk to      *)
(* (chat session, speech synthesis, speech recognition, audio output).     *)
(*                                                                         *)
(* One action is one task of the UI event loop: an event handler, or the   *)
(* continuation of an async function from the settlement of the promise it *)
(* awaits up to its next await of an external call.                        *)
(***************************************************************************)
EXTENDS Integers, Sequences, FiniteSets

\* ------------------------------------------------------------- bounds
\* longest pending input text / recognised text, in characters
MaxInputLen == 1
\* number of chat-send requests one behaviour may issue
MaxSends == 2
\* largest decoded synthesis payload, in bytes
MaxPayloadBytes == 2
\* most results one recognition event carries
MaxResults == 1

\* ------------------------------------------------------------- text
\* the characters of the model: one that String.prototype.trim strips and
\* one that it keeps
Chars == {"h", " "}

IsWhiteSpace(c) == c = " "

RECURSIVE TrimStart(_)
TrimStart(s) ==
    IF s # <<>> /\ IsWhiteSpace(Head(s)) THEN TrimStart(Tail(s)) ELSE s

RECURSIVE TrimEnd(_)
TrimEnd(s) ==
    IF s # <<>> /\ IsWhiteSpace(s[Len(s)])
    THEN TrimEnd(SubSeq(s, 1, Len(s) - 1))
    ELSE s

\* String.prototype.trim
Trim(s) == TrimEnd(TrimStart(s))

\* the strings of at most n characters
StringsUpTo(n) == UNION {[1..k -> Chars] : k \in 0..n}

\* ------------------------------------------------------------- constants of the code
\* tabsData: the ids of the three tabs, in order
tabsData == <<"implications", "thermodynamics", "chat">>

TabIds == {tabsData[i] : i \in 1..Len(tabsData)}

\* a default tab id that is none of the ids of tabsData
InitialTab_Misspelt == "implication"

\* useState<string>('implications')
InitialTab == "implications"

\* the three content components of the content pane
Panes == {"ImplicationsContent", "ThermodynamicsContent", "ChatInterface"}

\* the fixed texts of the transcript, each a one-token text
GreetingText == <<"greeting">>
InitErrorText == <<"init-error">>
SendErrorText == <<"send-error">>

\* the text the chat collaborator replies with
Replies == {<<"a">>}

Msg(r, c) == [role |-> r, content |-> c]

VARIABLES
    phase,                \* "mounting" before the init effect has run, then "mounted"
    activeTab,            \* useState activeTab
    chat,                 \* useState chat: TRUE when a chat session is held
    chatHistory,          \* useState chatHistory: the transcript
    userInput,            \* useState userInput: pending input text
    isLoading,            \* useState isLoading (isWaitingForReply)
    isListening,          \* useState isListening (isCapturingSpeech)
    isSpeaking,           \* useState isSpeaking (isPlayingAudio)
    aiRef,                \* aiRef.current # null
    speechRecognitionRef, \* speechRecognitionRef.current # null
    audioContextRef,      \* audioContextRef.current # null
    capture,              \* the recognition collaborator: "idle", "active", "stopping"
    sent,                 \* chat collaborator: the messages of the sendMessage calls
    outcomes,             \* chat collaborator: how each call settled, in order
    synthPending,         \* synthesis collaborator: generateContent calls not settled
    playing,              \* audio output: buffer sources started and not ended
    ev                    \* what the task that ran last was

vars == <<phase, activeTab, chat, chatHistory, userInput, isLoading, isListening,
          isSpeaking, aiRef, speechRecognitionRef, audioContextRef, capture,
          sent, outcomes, synthPending, playing, ev>>

\* ev names the task when it is a submit event, a recognition event with a
\* final result or the settlement of a synthesis request (with the
\* outcome), and is Other after any other task
Event(op) == [op |-> op, kind |-> "", bytes |-> 0]

Other == Event("other")

\* the state of the component after its first render, before its effects
Init ==
    /\ phase = "mounting"
    /\ activeTab = InitialTab
    /\ chat = FALSE
    /\ chatHistory = <<>>
    /\ userInput = <<>>
    /\ isLoading = FALSE
    /\ isListening = FALSE
    /\ isSpeaking = FALSE
    /\ aiRef = FALSE
    /\ speechRecognitionRef = FALSE
    /\ audioContextRef = FALSE
    /\ capture = "idle"
    /\ sent = <<>>
    /\ outcomes = <<>>
    /\ synthPending = 0
    /\ playing = 0
    /\ ev = Other

\* ------------------------------------------------------------- rendering
\* the content pane: the components the three conditional expressions mount
RenderedPanes ==
    (IF activeTab = "implications" THEN {"ImplicationsContent"} ELSE {})
    \cup (IF activeTab = "thermodynamics" THEN {"ThermodynamicsContent"} ELSE {})
    \cup (IF activeTab = "chat" THEN {"ChatInterface"} ELSE {})

\* the form of ChatInterface exists only while that pane is mounted
FormMounted == phase = "mounted" /\ "ChatInterface" \in RenderedPanes

\* the disabled attribute of the text input and of the microphone button
InputDisabled == isLoading \/ ~chat \/ isSpeaking

\* ------------------------------------------------------------- initialisation
\* the statements of init that may throw, in program order
InitSteps == <<"client", "session", "recognition", "audio">>

StepIndex(step) == CHOOSE i \in 1..Len(InitSteps) : InitSteps[i] = step

\* TRUE when init gets past `step` without throwing there or before
Passed(step, failAt) ==
    failAt = "none" \/ StepIndex(step) < StepIndex(failAt)

\* the init effect: mount-time construction of the collaborators.
\* failAt is the statement that throws, speechAvailable whether the
\* platform has a SpeechRecognition constructor.
init(failAt, speechAvailable) ==
    /\ phase = "mounting"
    /\ failAt = "recognition" => speechAvailable
    /\ phase' = "mounted"
    /\ aiRef' = Passed("client", failAt)
    /\ chat' = Passed("session", failAt)
    /\ speechRecognitionRef' = (speechAvailable /\ Passed("recognition", failAt))
    /\ audioContextRef' = Passed("audio", failAt)
    /\ chatHistory' = IF failAt = "none"
                      THEN <<Msg("model", GreetingText)>>
                      ELSE <<Msg("system", InitErrorText)>>
    /\ ev' = Other
    /\ UNCHANGED <<activeTab, userInput, isLoading, isListening, isSpeaking,
                   capture, sent, outcomes, synthPending, playing>>

\* ------------------------------------------------------------- tab selector
\* onClick of a tab button
setActiveTab(id) ==
    /\ phase = "mounted"
    /\ activeTab' = id
    /\ ev' = Other
    /\ UNCHANGED <<phase, chat, chatHistory, userInput, isLoading, isListening,
                   isSpeaking, aiRef, speechRecognitionRef, audioContextRef,
                   capture, sent, outcomes, synthPending, playing>>

\* ------------------------------------------------------------- text input
\* onChange of the text input: setUserInput(e.target.value)
setUserInput(value) ==
    /\ FormMounted
    /\ ~InputDisabled
    /\ userInput' = value
    /\ ev' = Other
    /\ UNCHANGED <<phase, activeTab, chat, chatHistory, isLoading, isListening,
                   isSpeaking, aiRef, speechRecognitionRef, audioContextRef,
                   capture, sent, outcomes, synthPending, playing>>

\* ------------------------------------------------------------- conversation controller
\* the guard without its isLoading test
SendGuard_NoLoadingTest ==
    /\ Trim(userInput) # <<>>
    /\ chat
    /\ ~isSpeaking

\* the guard testing userInput where the code tests userInput.trim()
SendGuard_NoTrim ==
    /\ userInput # <<>>
    /\ ~isLoading
    /\ chat
    /\ ~isSpeaking

\* the guard without its isSpeaking test
SendGuard_NoSpeakingTest ==
    /\ Trim(userInput) # <<>>
    /\ ~isLoading
    /\ chat

\* the early return of handleSendMessage, negated
SendGuard ==
    /\ Trim(userInput) # <<>>
    /\ ~isLoading
    /\ chat
    /\ ~isSpeaking

\* handleSendMessage from its guard to the await of chat.sendMessage
SendAccepted ==
    /\ chatHistory' = Append(chatHistory, Msg("user", userInput))
    /\ userInput' = <<>>
    /\ isLoading' = TRUE
    /\ sent' = Append(sent, userInput)

\* the submit event of the form. The event is not gated by the disabled
\* attribute of the input: requestSubmit() dispatches it whatever the
\* state of the controls.
handleSendMessage ==
    /\ FormMounted
    /\ SendGuard => Len(sent) < MaxSends
    /\ IF SendGuard
       THEN SendAccepted /\ ev' = Event("submit_accepted")
       ELSE /\ ev' = Event("submit_rejected")
            /\ UNCHANGED <<chatHistory, userInput, isLoading, sent>>
    /\ UNCHANGED <<phase, activeTab, chat, isListening, isSpeaking, aiRef,
                   speechRecognitionRef, audioContextRef, capture, outcomes,
                   synthPending, playing>>

\* the early return of playAudioResponse, negated
CanSynthesize == aiRef /\ audioContextRef

\* chatResolved with setIsLoading(false) run before playAudioResponse
chatResolved_LoadingClearedFirst(text) ==
    /\ Len(outcomes) < Len(sent)
    /\ outcomes' = Append(outcomes, [ok |-> TRUE, text |-> text])
    /\ chatHistory' = Append(chatHistory, Msg("model", text))
    /\ isLoading' = FALSE
    /\ IF CanSynthesize
       THEN isSpeaking' = TRUE /\ synthPending' = synthPending + 1
       ELSE UNCHANGED <<isSpeaking, synthPending>>
    /\ ev' = Other
    /\ UNCHANGED <<phase, activeTab, chat, userInput, isListening, aiRef,
                   speechRecognitionRef, audioContextRef, capture, sent,
                   playing>>

\* chat.sendMessage resolves with `text`: the model turn is appended and
\* playAudioResponse runs up to its await of generateContent; when it
\* returns at once the finally block of handleSendMessage runs.
chatResolved(text) ==
    /\ Len(outcomes) < Len(sent)
    /\ outcomes' = Append(outcomes, [ok |-> TRUE, text |-> text])
    /\ chatHistory' = Append(chatHistory, Msg("model", text))
    /\ IF CanSynthesize
       THEN /\ isSpeaking' = TRUE
            /\ synthPending' = synthPending + 1
            /\ UNCHANGED isLoading
       ELSE /\ isLoading' = FALSE
            /\ UNCHANGED <<isSpeaking, synthPending>>
    /\ ev' = Other
    /\ UNCHANGED <<phase, activeTab, chat, userInput, isListening, aiRef,
                   speechRecognitionRef, audioContextRef, capture, sent,
                   playing>>

\* chatRejected where setIsLoading(false) is not in a finally block and is
\* skipped by the throw
chatRejected_NoFinally ==
    /\ Len(outcomes) < Len(sent)
    /\ outcomes' = Append(outcomes, [ok |-> FALSE, text |-> <<>>])
    /\ chatHistory' = Append(chatHistory, Msg("system", SendErrorText))
    /\ ev' = Other
    /\ UNCHANGED <<phase, activeTab, chat, userInput, isLoading, isListening,
                   isSpeaking, aiRef, speechRecognitionRef, audioContextRef,
                   capture, sent, synthPending, playing>>

\* chat.sendMessage rejects: the catch and finally blocks of handleSendMessage
chatRejected ==
    /\ Len(outcomes) < Len(sent)
    /\ outcomes' = Append(outcomes, [ok |-> FALSE, text |-> <<>>])
    /\ chatHistory' = Append(chatHistory, Msg("system", SendErrorText))
    /\ isLoading' = FALSE
    /\ ev' = Other
    /\ UNCHANGED <<phase, activeTab, chat, userInput, isListening, isSpeaking,
                   aiRef, speechRecognitionRef, audioContextRef, capture, sent,
                   synthPending, playing>>

\* ------------------------------------------------------------- audio playback adapter
\* numChannels, the last argument of the decodeAudioData call
NumChannels == 1

\* how a generateContent call may settle: it throws, it resolves without
\* an inline audio part, or it resolves with a payload of `bytes` bytes
SynthOutcomes ==
    {[kind |-> "throw", bytes |-> 0], [kind |-> "none", bytes |-> 0]}
    \cup {[kind |-> "payload", bytes |-> n] : n \in 0..MaxPayloadBytes}

\* if(base64Audio): the payload is there and its base64 text is not empty
HasAudio(o) == o.kind = "payload" /\ o.bytes > 0

\* new Int16Array(data.buffer) throws a RangeError unless the byte length is
\* a multiple of the two bytes of a sample
DecodeThrows(bytes) == bytes % 2 # 0

\* frameCount of decodeAudioData
FrameCount(bytes) == (bytes \div 2) \div NumChannels

\* TRUE when playAudioResponse reaches source.start() for this outcome
PlaybackStarts(o) ==
    HasAudio(o) /\ ~DecodeThrows(o.bytes) /\ FrameCount(o.bytes) > 0

\* synthSettled where playAudioResponse has no catch block: a throw of the
\* request or of the decoding reaches the catch block of handleSendMessage
synthSettled_Uncaught(o) ==
    /\ synthPending > 0
    /\ synthPending' = synthPending - 1
    /\ IF PlaybackStarts(o)
       THEN playing' = playing + 1 /\ UNCHANGED <<isSpeaking, chatHistory>>
       ELSE /\ UNCHANGED playing
            /\ IF o.kind = "throw" \/ HasAudio(o)
               THEN /\ chatHistory' =
                         Append(chatHistory, Msg("system", SendErrorText))
                    /\ UNCHANGED isSpeaking
               ELSE isSpeaking' = FALSE /\ UNCHANGED chatHistory
    /\ isLoading' = FALSE
    /\ ev' = [op |-> "synth_settled", kind |-> o.kind, bytes |-> o.bytes]
    /\ UNCHANGED <<phase, activeTab, chat, userInput, isListening, aiRef,
                   speechRecognitionRef, audioContextRef, capture, sent,
                   outcomes>>

\* synthSettled where setIsLoading(false) runs only after a playback started
synthSettled_LoadingKept(o) ==
    /\ synthPending > 0
    /\ synthPending' = synthPending - 1
    /\ IF PlaybackStarts(o)
       THEN playing' = playing + 1 /\ isLoading' = FALSE /\ UNCHANGED isSpeaking
       ELSE isSpeaking' = FALSE /\ UNCHANGED <<playing, isLoading>>
    /\ ev' = [op |-> "synth_settled", kind |-> o.kind, bytes |-> o.bytes]
    /\ UNCHANGED <<phase, activeTab, chat, chatHistory, userInput, isListening,
                   aiRef, speechRecognitionRef, audioContextRef, capture, sent,
                   outcomes>>

\* generateContent settles with `o`: the rest of playAudioResponse (whose
\* catch block handles a throw of the request or of the decoding), then the
\* finally block of the handleSendMessage that awaited it
synthSettled(o) ==
    /\ synthPending > 0
    /\ synthPending' = synthPending - 1
    /\ IF PlaybackStarts(o)
       THEN playing' = playing + 1 /\ UNCHANGED isSpeaking
       ELSE isSpeaking' = FALSE /\ UNCHANGED playing
    /\ isLoading' = FALSE
    /\ ev' = [op |-> "synth_settled", kind |-> o.kind, bytes |-> o.bytes]
    /\ UNCHANGED <<phase, activeTab, chat, chatHistory, userInput, isListening,
                   aiRef, speechRecognitionRef, audioContextRef, capture, sent,
                   outcomes>>

\* source.onended: the platform signals the end of a playback
onended ==
    /\ playing > 0
    /\ playing' = playing - 1
    /\ isSpeaking' = FALSE
    /\ ev' = Other
    /\ UNCHANGED <<phase, activeTab, chat, chatHistory, userInput, isLoading,
                   isListening, aiRef, speechRecognitionRef, audioContextRef,
                   capture, sent, outcomes, synthPending>>

\* ------------------------------------------------------------- speech capture adapter
\* onClick of the microphone button
handleMicClick ==
    /\ FormMounted
    /\ ~InputDisabled
    /\ IF ~speechRecognitionRef
       THEN UNCHANGED <<userInput, isListening, capture>>
       ELSE IF isListening
            THEN /\ capture' = IF capture = "active" THEN "stopping" ELSE capture
                 /\ UNCHANGED <<userInput, isListening>>
            ELSE /\ userInput' = <<>>
                 /\ capture' = "active"
                 /\ isListening' = TRUE
    /\ ev' = Other
    /\ UNCHANGED <<phase, activeTab, chat, chatHistory, isLoading, isSpeaking,
                   aiRef, speechRecognitionRef, audioContextRef, sent, outcomes,
                   synthPending, playing>>

\* the results one recognition event may carry from event.resultIndex on
ResultLists ==
    UNION {[1..k -> [isFinal : BOOLEAN, transcript : [1..1 -> Chars]]]
           : k \in 1..MaxResults}

\* finalTranscript of recognition.onresult: the final results, concatenated
RECURSIVE FinalTranscript(_)
FinalTranscript(results) ==
    IF results = <<>> THEN <<>>
    ELSE (IF Head(results).isFinal THEN Head(results).transcript ELSE <<>>)
         \o FinalTranscript(Tail(results))

\* recognition.onresult
onresult(results) ==
    /\ capture # "idle"
    /\ Len(userInput \o FinalTranscript(results)) <= MaxInputLen
    /\ userInput' = IF FinalTranscript(results) # <<>>
                    THEN userInput \o FinalTranscript(results)
                    ELSE userInput
    /\ ev' = IF FinalTranscript(results) # <<>>
             THEN Event("final_result") ELSE Other
    /\ UNCHANGED <<phase, activeTab, chat, chatHistory, isLoading, isListening,
                   isSpeaking, aiRef, speechRecognitionRef, audioContextRef,
                   capture, sent, outcomes, synthPending, playing>>

\* the userInput that recognition.onend reads: the callback is created by an
\* effect with an empty dependency list, so it closes over the userInput of
\* the first render, useState('')
OnEndUserInput == <<>>

\* recognition.onend: the platform signals the end of the capture
onend ==
    /\ capture # "idle"
    /\ capture' = "idle"
    /\ isListening' = FALSE
    /\ IF Trim(OnEndUserInput) # <<>> /\ FormMounted /\ SendGuard
          /\ Len(sent) < MaxSends
       THEN SendAccepted
       ELSE UNCHANGED <<chatHistory, userInput, isLoading, sent>>
    /\ ev' = Other
    /\ UNCHANGED <<phase, activeTab, chat, isSpeaking, aiRef,
                   speechRecognitionRef, audioContextRef, outcomes,
                   synthPending, playing>>

\* ------------------------------------------------------------- specification
InitFailures == {"none", "client", "session", "recognition", "audio"}

Next ==
    \/ \E f \in InitFailures, a \in BOOLEAN : init(f, a)
    \/ \E id \in TabIds : setActiveTab(id)
    \/ \E v \in StringsUpTo(MaxInputLen) : setUserInput(v)
    \/ handleSendMessage
    \/ \E t \in Replies : chatResolved(t)
    \/ chatRejected
    \/ \E o \in SynthOutcomes : synthSettled(o)
    \/ onended
    \/ handleMicClick
    \/ \E r \in ResultLists : onresult(r)
    \/ onend

Spec == Init /\ [][Next]_vars

\* every promise of a collaborator settles
Fairness ==
    /\ WF_vars((\E t \in Replies : chatResolved(t)) \/ chatRejected)
    /\ WF_vars(\E o \in SynthOutcomes : synthSettled(o))

LiveSpec == Spec /\ Fairness

\* ------------------------------------------------------------- teardown
\* Once the component is unmounted its state no longer exists: the setters
\* of useState do nothing, while the refs, the closures of the pending
\* continuations and the collaborators live on.

\* the cleanup of the init effect, run when the card is unmounted:
\* speechRecognitionRef.current?.stop()
teardown ==
    /\ phase = "mounted"
    /\ phase' = "unmounted"
    /\ capture' = IF speechRecognitionRef /\ capture = "active"
                  THEN "stopping" ELSE capture
    /\ UNCHANGED <<activeTab, chat, chatHistory, userInput, isLoading,
                   isListening, isSpeaking, aiRef, speechRecognitionRef,
                   audioContextRef, sent, outcomes, synthPending, playing, ev>>

\* chat.sendMessage resolves after the teardown: setChatHistory does
\* nothing, playAudioResponse runs up to its await of generateContent
\* (setIsSpeaking does nothing), or returns at once and the finally block
\* runs (setIsLoading does nothing)
lateChatResolved(text) ==
    /\ phase = "unmounted"
    /\ Len(outcomes) < Len(sent)
    /\ outcomes' = Append(outcomes, [ok |-> TRUE, text |-> text])
    /\ synthPending' = IF CanSynthesize THEN synthPending + 1 ELSE synthPending
    /\ UNCHANGED <<phase, activeTab, chat, chatHistory, userInput, isLoading,
                   isListening, isSpeaking, aiRef, speechRecognitionRef,
                   audioContextRef, capture, sent, playing, ev>>

\* chat.sendMessage rejects after the teardown: the setters of the catch
\* and finally blocks do nothing
lateChatRejected ==
    /\ phase = "unmounted"
    /\ Len(outcomes) < Len(sent)
    /\ outcomes' = Append(outcomes, [ok |-> FALSE, text |-> <<>>])
    /\ UNCHANGED <<phase, activeTab, chat, chatHistory, userInput, isLoading,
                   isListening, isSpeaking, aiRef, speechRecognitionRef,
                   audioContextRef, capture, sent, synthPending, playing, ev>>

\* generateContent settles after the teardown: the rest of
\* playAudioResponse, whose setters do nothing and whose source.start()
\* plays the buffer on the audio context the ref still holds
lateSynthSettled(o) ==
    /\ phase = "unmounted"
    /\ synthPending > 0
    /\ synthPending' = synthPending - 1
    /\ playing' = IF PlaybackStarts(o) THEN playing + 1 ELSE playing
    /\ UNCHANGED <<phase, activeTab, chat, chatHistory, userInput, isLoading,
                   isListening, isSpeaking, aiRef, speechRecognitionRef,
                   audioContextRef, capture, sent, outcomes, ev>>

\* source.onended after the teardown: setIsSpeaking does nothing
lateOnended ==
    /\ phase = "unmounted"
    /\ playing > 0
    /\ playing' = playing - 1
    /\ UNCHANGED <<phase, activeTab, chat, chatHistory, userInput, isLoading,
                   isListening, isSpeaking, aiRef, speechRecognitionRef,
                   audioContextRef, capture, sent, outcomes, synthPending, ev>>

\* recognition.onend after the teardown: setIsListening does nothing, and
\* the form, were requestSubmit reached, is gone
lateOnend ==
    /\ phase = "unmounted"
    /\ capture # "idle"
    /\ capture' = "idle"
    /\ UNCHANGED <<phase, activeTab, chat, chatHistory, userInput, isLoading,
                   isListening, isSpeaking, aiRef, speechRecognitionRef,
                   audioContextRef, sent, outcomes, synthPending, playing, ev>>

\* the card from its mount to after its unmount. The tasks of Next belong
\* to the mounted component; recognition.onresult after the teardown only
\* calls setUserInput and so changes nothing.
TeardownNext ==
    \/ phase # "unmounted" /\ Next
    \/ teardown
    \/ \E t \in Replies : lateChatResolved(t)
    \/ lateChatRejected
    \/ \E o \in SynthOutcomes : lateSynthSettled(o)
    \/ lateOnended
    \/ lateOnend

TeardownSpec == Init /\ [][TeardownNext]_vars

\* ------------------------------------------------------------- properties
\* chat-send requests that have not settled
OutstandingChat == Len(sent) - Len(outcomes)

LastTurn(h) == h[Len(h)]

\* the step appends a user turn to the transcript
UserTurnAppended ==
    /\ Len(chatHistory') = Len(chatHistory) + 1
    /\ LastTurn(chatHistory').role = "user"

\* the step is a run of the submit handler
SubmitStep == ev'.op \in {"submit_accepted", "submit_rejected"}

\* C1: at most one chat-send request is outstanding at any time, and no
\* step taken while isLoading is true appends a user turn or invokes
\* chat-send.
C1_OneOutstandingRequest ==
    /\ [](OutstandingChat <= 1)
    /\ [][isLoading => (sent' = sent /\ ~UserTurnAppended)]_vars

\* a submission with text, refused only because a reply is awaited
C1_Witness ==
    /\ ev.op = "submit_rejected"
    /\ isLoading /\ ~isSpeaking /\ chat
    /\ Trim(userInput) # <<>>
    /\ OutstandingChat = 1

\* the transcript after the entry of init: the k-th accepted submission is
\* turn 2k, its reply or its error is turn 2k + 1, and there is nothing else
TranscriptFollowsRequests ==
    phase = "mounted" =>
        /\ Len(chatHistory) = 1 + Len(sent) + Len(outcomes)
        /\ \A k \in 1..Len(sent) : chatHistory[2 * k] = Msg("user", sent[k])
        /\ \A k \in 1..Len(outcomes) :
              outcomes[k].ok =>
                  chatHistory[2 * k + 1] = Msg("model", outcomes[k].text)

\* C2: every accepted submission of S answered with T puts the user turn S
\* and right after it the model turn T in the transcript, with no other
\* turn, and isLoading returns to false however the synthesis ends.
C2_ReplyAppendedAndLoadingCleared ==
    /\ []TranscriptFollowsRequests
    /\ isLoading ~> ~isLoading

\* a reply was appended, its synthesis threw, and isLoading is false again
C2_Witness ==
    /\ ev.op = "synth_settled" /\ ev.kind = "throw"
    /\ Len(outcomes) = 1 /\ outcomes[1].ok
    /\ chatHistory[3] = Msg("model", outcomes[1].text)
    /\ ~isLoading

\* the step is the failure of a chat-send request
ChatRejectedStep ==
    /\ Len(outcomes') = Len(outcomes) + 1
    /\ ~LastTurn(outcomes').ok

\* C3: when chat-send fails, the user turn of the submission is followed
\* by one system turn with the fixed message, isLoading becomes false,
\* isSpeaking is not set, no synthesis is requested and chat-send is not
\* invoked again.
C3_ChatFailure ==
    [][ChatRejectedStep =>
          /\ LastTurn(chatHistory) = Msg("user", sent[Len(outcomes')])
          /\ chatHistory' = Append(chatHistory, Msg("system", SendErrorText))
          /\ ~isLoading'
          /\ ~isSpeaking /\ ~isSpeaking'
          /\ synthPending = 0 /\ synthPending' = 0
          /\ sent' = sent
          /\ OutstandingChat' = 0]_vars

\* a chat-send has failed and its error turn ends the transcript
C3_Witness ==
    /\ outcomes # <<>> /\ ~LastTurn(outcomes).ok
    /\ LastTurn(chatHistory) = Msg("system", SendErrorText)
    /\ chatHistory[Len(chatHistory) - 1].role = "user"
    /\ ~isLoading

\* the step is the end-of-capture signal of the recognition collaborator
EndOfCaptureStep == isListening /\ ~isListening'

\* C4: when the capture has delivered a final segment and then ends, the
\* pending input text is submitted: a user turn with it is appended and
\* chat-send is invoked with it (in a state where a submit of the form
\* would be accepted).
C4_AutoSubmitAtEndOfCapture ==
    [][(/\ ev.op = "final_result"
        /\ EndOfCaptureStep
        /\ FormMounted /\ SendGuard /\ Len(sent) < MaxSends)
          => /\ chatHistory' = Append(chatHistory, Msg("user", userInput))
             /\ sent' = Append(sent, userInput)]_vars

\* C5: a submit with an empty or whitespace-only pending input changes
\* nothing: no turn, no chat-send, the flags and the input as they were.
C5_BlankSubmitIsNoOp ==
    [][(SubmitStep /\ Trim(userInput) = <<>>)
          => UNCHANGED <<chatHistory, sent, outcomes, isLoading, isSpeaking,
                         userInput, synthPending, playing>>]_vars

\* a whitespace-only input was submitted, nothing else standing in the way
C5_Witness ==
    /\ ev.op = "submit_rejected"
    /\ userInput # <<>> /\ Trim(userInput) = <<>>
    /\ chat /\ ~isLoading /\ ~isSpeaking

\* C6: at most one synthesis request or playback is in flight, and while a
\* chat-send, a synthesis request or a playback is in flight isLoading or
\* isSpeaking is true.
C6_OneAudioInFlight ==
    /\ synthPending + playing <= 1
    /\ (OutstandingChat > 0 \/ synthPending > 0 \/ playing > 0)
          => (isLoading \/ isSpeaking)

\* a submission with text, refused only because a playback is running
C6_Witness ==
    /\ ev.op = "submit_rejected"
    /\ playing = 1 /\ isSpeaking /\ ~isLoading /\ chat
    /\ Trim(userInput) # <<>>

\* the synthesis request threw, resolved without audio, or resolved with a
\* payload whose decoding throws
SynthesisFailed(e) ==
    /\ e.op = "synth_settled"
    /\ \/ e.kind \in {"throw", "none"}
       \/ e.kind = "payload" /\ (e.bytes = 0 \/ DecodeThrows(e.bytes))

\* C7: when the synthesis fails or brings no audio, isSpeaking is set back
\* to false, no playback starts, no turn is appended and the model turn
\* stays the last turn of the transcript.
C7_SynthesisFailureIsSilent ==
    [][SynthesisFailed(ev') =>
          /\ isSpeaking /\ ~isSpeaking'
          /\ playing' = playing
          /\ chatHistory' = chatHistory
          /\ LastTurn(chatHistory').role = "model"]_vars

\* a payload that cannot be decoded has arrived: no playback, text kept
C7_Witness ==
    /\ ev.op = "synth_settled" /\ ev.kind = "payload" /\ DecodeThrows(ev.bytes)
    /\ ~isSpeaking /\ playing = 0
    /\ LastTurn(chatHistory).role = "model"

\* the init effect ended in its catch block
InitFailed ==
    phase = "mounted" /\ chatHistory[1] = Msg("system", InitErrorText)

\* C8: after a failed initialisation no submission ever gets a model turn
\* into the transcript.
C8_NoReplyAfterFailedInit ==
    InitFailed => \A i \in 1..Len(chatHistory) : chatHistory[i].role # "model"

\* the content component each tab id stands for
PaneOf(id) ==
    CASE id = "implications" -> "ImplicationsContent"
      [] id = "thermodynamics" -> "ThermodynamicsContent"
      [] id = "chat" -> "ChatInterface"
      [] OTHER -> "none"

\* C9: activeTab is always one of the three tab ids, the first one before
\* any event, and the content pane holds that tab's component and no other.
C9_ExactlyOneTabRendered ==
    /\ activeTab \in TabIds
    /\ Cardinality(TabIds) = 3
    /\ phase = "mounting" => activeTab = tabsData[1]
    /\ RenderedPanes = {PaneOf(activeTab)}
    /\ Cardinality(RenderedPanes) = 1

\* another tab was selected while a reply was awaited
C9_Witness ==
    /\ activeTab = "thermodynamics"
    /\ RenderedPanes = {"ThermodynamicsContent"}
    /\ isLoading /\ OutstandingChat = 1

\* the step sets isSpeaking
SpeakingSetStep == ~isSpeaking /\ isSpeaking'

\* C10 as stated: isLoading is already false when isSpeaking becomes true.
C10_LoadingClearedBeforeSpeaking ==
    [][SpeakingSetStep => ~isLoading']_vars

\* C10 as the code has it: on a successful reply the model turn is
\* appended and isSpeaking is set, with the synthesis request issued,
\* while isLoading is still true; isLoading is cleared by the step in
\* which the synthesis request settles, or by the reply step itself when
\* the chat-send failed or no synthesis could be requested.
C10_SpeakingSetWhileLoading ==
    /\ [][SpeakingSetStep =>
             /\ isLoading /\ isLoading'
             /\ Len(chatHistory') = Len(chatHistory) + 1
             /\ LastTurn(chatHistory') =
                    Msg("model", LastTurn(outcomes').text)
             /\ synthPending' = synthPending + 1]_vars
    /\ [][(isLoading /\ ~isLoading') =>
             \/ synthPending' = synthPending - 1
             \/ /\ Len(outcomes') = Len(outcomes) + 1
                /\ ~LastTurn(outcomes').ok \/ ~CanSynthesize]_vars

\* the reply is in the transcript and its synthesis has been requested,
\* with isLoading still true
C10_Witness ==
    /\ isSpeaking /\ isLoading
    /\ synthPending = 1 /\ playing = 0
    /\ LastTurn(chatHistory).role = "model"

\* C12: speech capture and reply audio never overlap: isListening and
\* isSpeaking are not both true.
C12_NeverListeningWhileSpeaking == ~(isListening /\ isSpeaking)

\* the state the controller holds in useState
ControllerState ==
    <<activeTab, chat, chatHistory, userInput, isLoading, isListening,
      isSpeaking>>

\* C11: the teardown stops an active capture, and whatever arrives after
\* the teardown is discarded: it changes no controller state, requests no
\* synthesis, sends no chat message and starts no playback.
C11_LateResponsesDiscarded ==
    /\ [][(phase = "mounted" /\ phase' = "unmounted") =>
             (speechRecognitionRef => capture' # "active")]_vars
    /\ [][phase = "unmounted" =>
             /\ UNCHANGED ControllerState
             /\ sent' = sent
             /\ synthPending' <= synthPending
             /\ playing' <= playing]_vars

====
